---- MODULE Spec2Model ----
(***************************************************************************)
(* Model of app/main.py of the Stock-Market-Analyzer: the analysis loop of *)
(* main (fetch, indicators, per-ticker report) and the pandas pipeline of  *)
(* calculate_moving_averages and calculate_rsi.                            *)
(*                                                                         *)
(* Floating point values are modelled as extended rationals: a record      *)
(* [k, n, d] where k is "num" (the rational n/d, d > 0), "inf" (n is the   *)
(* sign) or "nan".  Rounding is not modelled; the sign of a zero is not    *)
(* modelled (x / -0.0 and x / 0.0 give RSI 100 alike in the code).         *)
(***************************************************************************)
EXTENDS Integers, Sequences, FiniteSets, TLC

VARIABLES text, tickers, idx, pc, ticker_data, calls, ui, escaped, ridx,
          series, data, stage, snap

vars == <<text, tickers, idx, pc, ticker_data, calls, ui, escaped, ridx,
          series, data, stage, snap>>

batchVars == <<text, tickers, idx, pc, ticker_data, calls, ui, escaped, ridx>>

engineVars == <<series, data, stage, snap>>

(* ---------------------------- bounds ----------------------------------- *)

MaxTickers == 3

MaxLen == 52

MaxBatchLen == 2

Base == 1000

(* ------------------------ program constants ---------------------------- *)

SMA20Window == 20

SMA50Window == 50

RSIPeriod == 14

Overbought == 70

Oversold == 30

Hundred == 100

(* ------------------------- float arithmetic ---------------------------- *)

NaN == [k |-> "nan", n |-> 0, d |-> 1]

Num(n, d) == [k |-> "num", n |-> n, d |-> d]

Inf(s) == [k |-> "inf", n |-> s, d |-> 1]

IsNaN(x) == x.k = "nan"

IsNum(x) == x.k = "num"

Sign(i) == IF i > 0 THEN 1 ELSE IF i < 0 THEN -1 ELSE 0

Abs(i) == IF i < 0 THEN -i ELSE i

FNeg(a) == IF IsNaN(a) THEN NaN ELSE [a EXCEPT !.n = -a.n]

FAdd(a, b) ==
    IF IsNaN(a) \/ IsNaN(b) THEN NaN
    ELSE IF a.k = "inf" /\ b.k = "inf"
         THEN (IF a.n = b.n THEN a ELSE NaN)
    ELSE IF a.k = "inf" THEN a
    ELSE IF b.k = "inf" THEN b
    ELSE Num(a.n * b.d + b.n * a.d, a.d * b.d)

FSub(a, b) == FAdd(a, FNeg(b))

FDiv(a, b) ==
    IF IsNaN(a) \/ IsNaN(b) THEN NaN
    ELSE IF b.k = "inf"
         THEN (IF a.k = "inf" THEN NaN ELSE Num(0, 1))
    ELSE IF b.n = 0
         THEN (IF a.n = 0 THEN NaN ELSE Inf(Sign(a.n)))
    ELSE IF a.k = "inf" THEN Inf(a.n * Sign(b.n))
    ELSE Num(a.n * b.d * Sign(b.n), a.d * Abs(b.n))

FGt(a, b) ==
    IF IsNaN(a) \/ IsNaN(b) THEN FALSE
    ELSE IF a.k = "inf" THEN a.n = 1 /\ ~(b.k = "inf" /\ b.n = 1)
    ELSE IF b.k = "inf" THEN b.n = -1
    ELSE a.n * b.d > b.n * a.d

FLt(a, b) == FGt(b, a)

FEq(a, b) ==
    IF IsNaN(a) \/ IsNaN(b) THEN FALSE
    ELSE IF a.k = "inf" \/ b.k = "inf" THEN a.k = b.k /\ a.n = b.n
    ELSE a.n * b.d = b.n * a.d

(* --------------------------- pandas Series ----------------------------- *)

\* Series.diff(): row 1 has no predecessor and is NaN.
Diff(s) == [i \in 1..Len(s) |-> IF i = 1 THEN NaN ELSE FSub(s[i], s[i - 1])]

\* Series.where(s > 0, other): keep the value where the condition is true.
WherePos(s, other) == [i \in 1..Len(s) |-> IF FGt(s[i], Num(0, 1)) THEN s[i] ELSE other]

\* Series.where(s < 0, other)
WhereNeg(s, other) == [i \in 1..Len(s) |-> IF FLt(s[i], Num(0, 1)) THEN s[i] ELSE other]

SNeg(s) == [i \in 1..Len(s) |-> FNeg(s[i])]

RECURSIVE RollLoop(_, _, _)
\* The loop of rolling(window=w).mean(), min_periods = w; lp holds the
\* running sum, the count of observations in the window and the rows written
\* so far.  The value entering the window is added, the one leaving it
\* removed, NaN observations are not counted, and the mean is reported once w
\* observations are in the window.
RollLoop(s, w, lp) ==
    IF Len(lp.out) >= Len(s) THEN lp.out
    ELSE LET i      == Len(lp.out) + 1
             addIn  == ~IsNaN(s[i])
             sum1   == IF addIn THEN FAdd(lp.sum, s[i]) ELSE lp.sum
             nobs1  == IF addIn THEN lp.nobs + 1 ELSE lp.nobs
             remOut == i > w /\ ~IsNaN(s[i - w])
             sum2   == IF remOut THEN FSub(sum1, s[i - w]) ELSE sum1
             nobs2  == IF remOut THEN nobs1 - 1 ELSE nobs1
             res    == IF nobs2 >= w THEN FDiv(sum2, Num(nobs2, 1)) ELSE NaN
         IN RollLoop(s, w, [sum |-> sum2, nobs |-> nobs2, out |-> Append(lp.out, res)])

RollingMean(s, w) == RollLoop(s, w, [sum |-> Num(0, 1), nobs |-> 0, out |-> <<>>])

(* -------------------------- pandas DataFrame --------------------------- *)

EmptyDataFrame ==
    [cols |-> {}, n |-> 0, Close |-> <<>>, SMA_20 |-> <<>>, SMA_50 |-> <<>>, RSI |-> <<>>]

\* The frame the provider returns: the price column only (possibly no rows).
Frame(closes) ==
    [cols |-> {"Close"}, n |-> Len(closes), Close |-> closes,
     SMA_20 |-> <<>>, SMA_50 |-> <<>>, RSI |-> <<>>]

IsEmpty(df) == df.cols = {} \/ df.n = 0

(* --------------------------- indicators -------------------------------- *)

\* The two windows exchanged.
calculate_moving_averages_swapped(df) ==
    [df EXCEPT !.cols = @ \cup {"SMA_20", "SMA_50"},
               !.SMA_20 = RollingMean(df.Close, SMA50Window),
               !.SMA_50 = RollingMean(df.Close, SMA20Window)]

calculate_moving_averages(df) ==
    [df EXCEPT !.cols = @ \cup {"SMA_20", "SMA_50"},
               !.SMA_20 = RollingMean(df.Close, SMA20Window),
               !.SMA_50 = RollingMean(df.Close, SMA50Window)]

\* The losses left negative.
calculate_rsi_signed(df, period) ==
    LET delta == Diff(df.Close)
        gain  == RollingMean(WherePos(delta, Num(0, 1)), period)
        loss  == RollingMean(WhereNeg(delta, Num(0, 1)), period)
        rs    == [i \in 1..Len(delta) |-> FDiv(gain[i], loss[i])]
        rsi   == [i \in 1..Len(delta) |->
                    FSub(Num(Hundred, 1), FDiv(Num(Hundred, 1), FAdd(Num(1, 1), rs[i])))]
    IN [df EXCEPT !.cols = @ \cup {"RSI"}, !.RSI = rsi]

calculate_rsi(df, period) ==
    LET delta == Diff(df.Close)
        gain  == RollingMean(WherePos(delta, Num(0, 1)), period)
        loss  == RollingMean(SNeg(WhereNeg(delta, Num(0, 1))), period)
        rs    == [i \in 1..Len(delta) |-> FDiv(gain[i], loss[i])]
        rsi   == [i \in 1..Len(delta) |->
                    FSub(Num(Hundred, 1), FDiv(Num(Hundred, 1), FAdd(Num(1, 1), rs[i])))]
    IN [df EXCEPT !.cols = @ \cup {"RSI"}, !.RSI = rsi]

(* --------------------------- classification ---------------------------- *)

\* The comparisons with the close made non-strict.
Trend_nonstrict(last_close, sma_20, sma_50) ==
    IF ~FLt(last_close, sma_20) /\ FGt(sma_20, sma_50) THEN "uptrend"
    ELSE IF ~FGt(last_close, sma_20) /\ FLt(sma_20, sma_50) THEN "downtrend"
    ELSE "mixed signals"

\* main, lines 129-134: Python's chained comparison a > b > c is a > b and b > c.
Trend(last_close, sma_20, sma_50) ==
    IF FGt(last_close, sma_20) /\ FGt(sma_20, sma_50) THEN "uptrend"
    ELSE IF FLt(last_close, sma_20) /\ FLt(sma_20, sma_50) THEN "downtrend"
    ELSE "mixed signals"

\* The thresholds made non-strict.
Momentum_nonstrict(rsi) ==
    IF ~FLt(rsi, Num(Overbought, 1)) THEN "overbought"
    ELSE IF ~FGt(rsi, Num(Oversold, 1)) THEN "oversold"
    ELSE "neutral"

\* main, lines 136-141
Momentum(rsi) ==
    IF FGt(rsi, Num(Overbought, 1)) THEN "overbought"
    ELSE IF FLt(rsi, Num(Oversold, 1)) THEN "oversold"
    ELSE "neutral"

\* Series.iloc[-1]
Last(s) == s[Len(s)]

(* ------------------------------ strings -------------------------------- *)

\* A string is a sequence of one-character strings.
UpperChar(c) == IF c = "a" THEN "A" ELSE IF c = "z" THEN "Z" ELSE c

Upper(s) == [i \in 1..Len(s) |-> UpperChar(s[i])]

RECURSIVE SplitLoop(_, _, _, _)
SplitLoop(s, i, cur, acc) ==
    IF i > Len(s) THEN Append(acc, cur)
    ELSE IF s[i] = "," THEN SplitLoop(s, i + 1, <<>>, Append(acc, cur))
    ELSE SplitLoop(s, i + 1, Append(cur, s[i]), acc)

\* str.split(','): always at least one piece, empty pieces are kept.
Split(s) == SplitLoop(s, 1, <<>>, <<>>)

RECURSIVE LStrip(_)
LStrip(s) == IF s # <<>> /\ Head(s) = " " THEN LStrip(Tail(s)) ELSE s

RECURSIVE RStrip(_)
RStrip(s) ==
    IF s # <<>> /\ s[Len(s)] = " " THEN RStrip(SubSeq(s, 1, Len(s) - 1)) ELSE s

\* str.strip()
Strip(s) == RStrip(LStrip(s))

(* --------------------------- ordered dict ------------------------------ *)

EmptyDict == [keys |-> <<>>, vals |-> <<>>]

HasKey(dict, key) == \E i \in 1..Len(dict.keys) : dict.keys[i] = key

KeyPos(dict, key) == CHOOSE i \in 1..Len(dict.keys) : dict.keys[i] = key

\* An existing key is dropped and stored again at the end.
DictPut_reinsert(dict, key, val) ==
    LET keep == {i \in 1..Len(dict.keys) : dict.keys[i] # key}
        pos  == [j \in 1..Cardinality(keep) |->
                   CHOOSE i \in keep : Cardinality({h \in keep : h < i}) = j - 1]
    IN [keys |-> Append([j \in 1..Cardinality(keep) |-> dict.keys[pos[j]]], key),
        vals |-> Append([j \in 1..Cardinality(keep) |-> dict.vals[pos[j]]], val)]

\* dict[key] = val: a new key goes last, an existing key keeps its place.
DictPut(dict, key, val) ==
    IF HasKey(dict, key)
    THEN [dict EXCEPT !.vals[KeyPos(dict, key)] = val]
    ELSE [keys |-> Append(dict.keys, key), vals |-> Append(dict.vals, val)]

(* ------------------------------ provider ------------------------------- *)

\* What yfinance does on one call of Ticker.history: it raises, or it returns a
\* frame (with no rows for an unknown symbol or an empty date range).
Raises == [kind |-> "raise", data |-> EmptyDataFrame]

Returns(closes) == [kind |-> "ok", data |-> Frame(closes)]

Msg(w, ticker, label) == [w |-> w, ticker |-> ticker, label |-> label]

\* The exception handler missing.
load_stock_data_rethrow(ticker, resp) ==
    IF resp.kind = "raise"
    THEN [ret |-> EmptyDataFrame, raised |-> TRUE, out |-> <<>>]
    ELSE IF IsEmpty(resp.data)
    THEN [ret |-> EmptyDataFrame, raised |-> FALSE,
          out |-> <<Msg("st.error", ticker, "No data found")>>]
    ELSE [ret |-> resp.data, raised |-> FALSE, out |-> <<>>]

\* load_stock_data: ret is the frame returned, raised tells whether an
\* exception leaves the function, out is what it logs and shows.
load_stock_data(ticker, resp) ==
    IF resp.kind = "raise"
    THEN [ret |-> EmptyDataFrame, raised |-> FALSE,
          out |-> <<Msg("logging.error", ticker, "Error loading stock data"),
                    Msg("st.error", ticker, "An error occurred")>>]
    ELSE IF IsEmpty(resp.data)
    THEN [ret |-> EmptyDataFrame, raised |-> FALSE,
          out |-> <<Msg("st.error", ticker, "No data found")>>]
    ELSE [ret |-> resp.data, raised |-> FALSE, out |-> <<>>]

(* ------------------------------- inputs -------------------------------- *)

Steps == {0, 1, 3, 7}

RECURSIVE ZigzagLoop(_, _, _, _, _)
\* Daily closes from Base: before row k the price rises by u into the even
\* rows and falls by d into the odd ones, from row k on it rises by d and
\* falls by u.
ZigzagLoop(L, u, d, k, acc) ==
    IF Len(acc) >= L THEN acc
    ELSE LET j    == Len(acc)
             up   == IF j < k THEN u ELSE d
             down == IF j < k THEN d ELSE u
             c    == IF j = 0 THEN Base
                     ELSE IF j % 2 = 1 THEN acc[j].n + up ELSE acc[j].n - down
         IN ZigzagLoop(L, u, d, k, Append(acc, Num(c, 1)))

Zigzag(L, u, d, k) == ZigzagLoop(L, u, d, k, <<>>)

\* The rows at which the zigzag turns.
Flips == {1, 8, 30, 45, 46}

\* The non-empty price series the indicator functions are applied to.
EngineSeries ==
    {Zigzag(L, u, d, k) : L \in 1..MaxLen, u \in Steps, d \in Steps, k \in Flips}

\* The series the provider may return within a batch.
BatchSeries ==
    {Zigzag(L, 1, 0, L) : L \in 0..MaxBatchLen} \cup {Zigzag(SMA50Window + 1, 7, 3, SMA50Window + 1)}

Responses == {Raises} \cup {Returns(s) : s \in BatchSeries}

RawTokens == {<<>>, <<" ">>, <<" ", "a">>, <<"Z", " ">>}

RECURSIVE Join(_)
Join(ts) == IF Len(ts) = 1 THEN ts[1] ELSE ts[1] \o <<",">> \o Join(Tail(ts))

\* The texts typed into the sidebar.
Texts == UNION {{Join(ts) : ts \in [1..n -> RawTokens]} : n \in 1..MaxTickers}

NoSnap == [trend |-> "", momentum |-> ""]

(* ------------------------------ main ----------------------------------- *)

Init ==
    /\ text \in Texts
    /\ tickers = Split(Upper(text))
    /\ idx = 0
    /\ pc = "idle"
    /\ ticker_data = EmptyDict
    /\ calls = <<>>
    /\ ui = <<>>
    /\ escaped = FALSE
    /\ ridx = 0
    /\ series = <<>>
    /\ data = EmptyDataFrame
    /\ stage = "off"
    /\ snap = NoSnap

\* main, lines 91-92: the Analyze button starts a batch.
Analyze ==
    /\ pc = "idle"
    /\ pc' = "loop"
    /\ ticker_data' = EmptyDict
    /\ idx' = 1
    /\ UNCHANGED <<text, tickers, calls, ui, escaped, ridx>>
    /\ UNCHANGED engineVars

\* main, lines 93-105: one iteration of the loop over the tickers.
LoopStep ==
    /\ pc = "loop"
    /\ idx <= Len(tickers)
    /\ LET ticker == Strip(tickers[idx])
           after  == IF idx = Len(tickers) THEN "charts" ELSE "loop"
       IN IF ticker = <<>>
          THEN /\ idx' = idx + 1
               /\ pc' = after
               /\ UNCHANGED <<ticker_data, calls, ui, escaped>>
          ELSE \E resp \in Responses :
                 LET r == load_stock_data(ticker, resp)
                 IN /\ calls' = Append(calls, [ticker |-> ticker, resp |-> resp, ret |-> r.ret])
                    /\ ui' = ui \o <<Msg("logging.info", ticker, "Analyzing stock")>> \o r.out
                    /\ IF r.raised
                       THEN /\ escaped' = TRUE
                            /\ pc' = "aborted"
                            /\ UNCHANGED <<idx, ticker_data>>
                       ELSE /\ escaped' = escaped
                            /\ idx' = idx + 1
                            /\ pc' = after
                            /\ ticker_data' =
                                 IF ~IsEmpty(r.ret)
                                 THEN DictPut(ticker_data, ticker,
                                        calculate_rsi(calculate_moving_averages(r.ret), RSIPeriod))
                                 ELSE ticker_data
    /\ UNCHANGED <<text, tickers, ridx>>
    /\ UNCHANGED engineVars

\* main, lines 108-118: the comparison charts, when at least one ticker has data.
Charts ==
    /\ pc = "charts"
    /\ IF ticker_data.keys # <<>>
       THEN /\ ui' = ui \o <<Msg("st.plotly_chart", <<>>, "price"),
                             Msg("st.plotly_chart", <<>>, "rsi"),
                             Msg("st.subheader", <<>>, "Recent Data")>>
            /\ ridx' = 1
            /\ pc' = "report"
       ELSE /\ pc' = "done"
            /\ UNCHANGED <<ui, ridx>>
    /\ UNCHANGED <<text, tickers, idx, ticker_data, calls, escaped>>
    /\ UNCHANGED engineVars

\* main, lines 119-141: one iteration of the loop over ticker_data.items().
ReportStep ==
    /\ pc = "report"
    /\ ridx <= Len(ticker_data.keys)
    /\ LET ticker     == ticker_data.keys[ridx]
           df         == ticker_data.vals[ridx]
           last_close == Last(df.Close)
           sma_20     == Last(df.SMA_20)
           sma_50     == Last(df.SMA_50)
           rsi        == Last(df.RSI)
       IN ui' = ui \o <<Msg("st.write", ticker, "Stock Analysis"),
                        Msg("st.dataframe", ticker, "tail"),
                        Msg("trend", ticker, Trend(last_close, sma_20, sma_50)),
                        Msg("momentum", ticker, Momentum(rsi))>>
    /\ ridx' = ridx + 1
    /\ pc' = IF ridx = Len(ticker_data.keys) THEN "done" ELSE "report"
    /\ UNCHANGED <<text, tickers, idx, ticker_data, calls, escaped>>
    /\ UNCHANGED engineVars

Next == Analyze \/ LoopStep \/ Charts \/ ReportStep

Spec == Init /\ [][Next]_vars

(* ------------------- the indicator pipeline on one series --------------- *)

InitEngine ==
    /\ series \in EngineSeries
    /\ data = Frame(series)
    /\ stage = "raw"
    /\ snap = NoSnap
    /\ text = <<>>
    /\ tickers = <<>>
    /\ idx = 0
    /\ pc = "off"
    /\ ticker_data = EmptyDict
    /\ calls = <<>>
    /\ ui = <<>>
    /\ escaped = FALSE
    /\ ridx = 0

\* main, line 103
MovingAverages ==
    /\ stage = "raw"
    /\ data' = calculate_moving_averages(data)
    /\ stage' = "sma"
    /\ UNCHANGED <<series, snap>>
    /\ UNCHANGED batchVars

\* main, line 104
Rsi ==
    /\ stage = "sma"
    /\ data' = calculate_rsi(data, RSIPeriod)
    /\ stage' = "rsi"
    /\ UNCHANGED <<series, snap>>
    /\ UNCHANGED batchVars

\* main, lines 124-141 for this frame
Classify ==
    /\ stage = "rsi"
    /\ snap' = [trend    |-> Trend(Last(data.Close), Last(data.SMA_20), Last(data.SMA_50)),
                momentum |-> Momentum(Last(data.RSI))]
    /\ stage' = "classified"
    /\ UNCHANGED <<series, data>>
    /\ UNCHANGED batchVars

NextEngine == MovingAverages \/ Rsi \/ Classify

SpecEngine == InitEngine /\ [][NextEngine]_vars

(* =============================== claims ================================ *)

HasData(resp) == resp.kind = "ok" /\ Len(resp.data.Close) > 0

NoRows(resp) == resp.kind = "ok" /\ Len(resp.data.Close) = 0

KeySet(dict) == {dict.keys[i] : i \in 1..Len(dict.keys)}

RECURSIVE NonBlankUpTo(_, _)
\* The stripped, non-blank tickers among the first n pieces of the input.
NonBlankUpTo(ts, n) ==
    IF n = 0 THEN <<>>
    ELSE IF Strip(ts[n]) = <<>> THEN NonBlankUpTo(ts, n - 1)
    ELSE Append(NonBlankUpTo(ts, n - 1), Strip(ts[n]))

LoopDone == pc \in {"charts", "report", "done"}

\* C1: a ticker whose fetched series is empty is skipped without aborting the
\* batch: no exception escapes, every non-blank ticker of the input is
\* fetched in turn (those after an empty one too), and ticker_data holds
\* exactly the tickers for which a fetch returned a non-empty series.
C1_EmptySkipped ==
    /\ ~escaped
    /\ pc # "aborted"
    /\ pc \in {"loop", "charts", "report", "done"} =>
         /\ [i \in 1..Len(calls) |-> calls[i].ticker]
              = NonBlankUpTo(tickers, IF LoopDone THEN Len(tickers) ELSE idx - 1)
         /\ KeySet(ticker_data)
              = {calls[i].ticker : i \in {j \in 1..Len(calls) : HasData(calls[j].resp)}}

\* A finished batch in which a ticker with an empty series came before a
\* ticker with data: the first is absent from ticker_data, the second present.
C1_Witness ==
    /\ pc = "done"
    /\ \E i, j \in 1..Len(calls) :
         /\ i < j
         /\ NoRows(calls[i].resp)
         /\ HasData(calls[j].resp)
         /\ calls[i].ticker \notin KeySet(ticker_data)
         /\ calls[j].ticker \in KeySet(ticker_data)

\* C2: load_stock_data never returns the same value for "the provider
\* returned an empty series" and for "the provider raised".
C2_FailureDistinctFromNoData ==
    \A i, j \in 1..Len(calls) :
        (calls[i].resp.kind = "raise" /\ NoRows(calls[j].resp)) => calls[i].ret # calls[j].ret

\* C3: a reported trend for a ticker whose latest sma20 or sma50 is
\* undefined is "insufficient data".
C3_InsufficientDataReported ==
    \A m \in 1..Len(ui) :
        (ui[m].w = "trend" /\ HasKey(ticker_data, ui[m].ticker)) =>
            LET df == ticker_data.vals[KeyPos(ticker_data, ui[m].ticker)]
            IN (IsNaN(Last(df.SMA_20)) \/ IsNaN(Last(df.SMA_50)))
                   => ui[m].label = "insufficient data"

HasRsi == stage \in {"rsi", "classified"}

\* Row i of the series closes no lower than row i - 1.
NoLossAt(i) == series[i].n >= series[i - 1].n

\* C4: rsi is undefined on the first 14 rows (indices 0..13), and defined on
\* the row of index 14 when one of its 14 deltas is not zero.
C4_RsiUndefinedFirst14 ==
    HasRsi =>
        /\ \A i \in 1..Len(data.RSI) : i <= 14 => IsNaN(data.RSI[i])
        /\ (Len(series) >= 15 /\ \E j \in 2..15 : series[j].n # series[j - 1].n)
               => ~IsNaN(data.RSI[15])

\* C5: on every row whose 14 deltas are all >= 0, rsi is exactly 100.
C5_NoLossIsHundred ==
    HasRsi =>
        \A i \in 15..Len(series) :
            (\A j \in (i - 13)..i : NoLossAt(j)) => FEq(data.RSI[i], Num(100, 1))

RECURSIVE SumCloses(_, _, _)
SumCloses(s, lo, hi) == IF lo > hi THEN 0 ELSE s[hi].n + SumCloses(s, lo, hi - 1)

\* C6: calculate_moving_averages keeps the rows and their order, leaves sma20
\* undefined on the first 19 rows, and on every later row i sets it to the
\* mean of close[i-19 .. i]; so L - 19 rows are defined when L >= 20, none
\* when L < 20.
C6_Sma20Rows ==
    stage # "raw" /\ stage # "off" =>
        /\ data.Close = series
        /\ data.n = Len(series)
        /\ Len(data.SMA_20) = Len(series)
        /\ \A i \in 1..Len(series) :
             IF i < 20 THEN IsNaN(data.SMA_20[i])
             ELSE /\ IsNum(data.SMA_20[i])
                  /\ data.SMA_20[i].n * 20 = SumCloses(series, i - 19, i) * data.SMA_20[i].d
        /\ Cardinality({i \in 1..Len(data.SMA_20) : ~IsNaN(data.SMA_20[i])})
             = IF Len(series) < 20 THEN 0 ELSE Len(series) - 19

\* A series of more than 20 rows whose closes move, with the averages computed.
C6_Witness ==
    /\ stage = "sma"
    /\ Len(series) > 20
    /\ series[21].n # series[1].n
    /\ ~IsNaN(data.SMA_20[21])
    /\ data.SMA_20[21] # data.SMA_20[20]

LastDefined == 
    /\ stage = "classified"
    /\ IsNum(Last(data.SMA_20))
    /\ IsNum(Last(data.SMA_50))

\* a/b > c/d for positive denominators
RatGt(a, c) == a.n * c.d > c.n * a.d

\* C7: with sma20 and sma50 defined on the latest row, the trend is the
\* uptrend exactly when close > sma20 > sma50, the downtrend exactly when
\* close < sma20 < sma50, and mixed in every other case.
C7_TrendLabel ==
    LastDefined =>
        LET c  == Last(series)
            a  == Last(data.SMA_20)
            b  == Last(data.SMA_50)
            up == RatGt(c, a) /\ RatGt(a, b)
            dn == RatGt(a, c) /\ RatGt(b, a)
        IN /\ snap.trend \in {"uptrend", "downtrend", "mixed signals"}
           /\ (snap.trend = "uptrend") <=> up
           /\ (snap.trend = "downtrend") <=> dn
           /\ (snap.trend = "mixed signals") <=> (~up /\ ~dn)

\* The latest close equals sma20 exactly, above sma50, and the trend is mixed.
C7_Witness ==
    /\ LastDefined
    /\ Last(series).n * Last(data.SMA_20).d = Last(data.SMA_20).n
    /\ RatGt(Last(data.SMA_20), Last(data.SMA_50))
    /\ snap.trend = "mixed signals"

\* C8: with rsi defined on the latest row, the momentum is overbought
\* exactly when rsi > 70, oversold exactly when rsi < 30, neutral otherwise
\* (70 and 30 themselves are neutral), whatever the trend is.
C8_MomentumLabel ==
    (stage = "classified" /\ IsNum(Last(data.RSI))) =>
        LET r == Last(data.RSI)
        IN /\ snap.momentum \in {"overbought", "oversold", "neutral"}
           /\ (snap.momentum = "overbought") <=> (r.n > 70 * r.d)
           /\ (snap.momentum = "oversold") <=> (r.n < 30 * r.d)
           /\ (snap.momentum = "neutral") <=> (r.n >= 30 * r.d /\ r.n <= 70 * r.d)

\* The latest rsi is exactly 70 and the momentum is neutral.
C8_Witness ==
    /\ stage = "classified"
    /\ IsNum(Last(data.RSI))
    /\ Last(data.RSI).n = 70 * Last(data.RSI).d
    /\ snap.momentum = "neutral"

\* C9: every defined rsi value lies in [0, 100].
C9_RsiRange ==
    HasRsi =>
        \A i \in 1..Len(data.RSI) :
            \/ IsNaN(data.RSI[i])
            \/ /\ IsNum(data.RSI[i])
               /\ data.RSI[i].d > 0
               /\ data.RSI[i].n >= 0
               /\ data.RSI[i].n <= 100 * data.RSI[i].d

\* Some row has an rsi strictly inside the range and some row one of 100.
C9_Witness ==
    /\ stage = "rsi"
    /\ \E i \in 1..Len(data.RSI) :
         /\ IsNum(data.RSI[i])
         /\ data.RSI[i].n > 0
         /\ data.RSI[i].n < 100 * data.RSI[i].d
    /\ \E i \in 1..Len(data.RSI) : FEq(data.RSI[i], Num(100, 1))

RECURSIVE Dedup(_)
\* A sequence without the later repetitions of its elements.
Dedup(s) ==
    IF s = <<>> THEN <<>>
    ELSE LET front == Dedup(SubSeq(s, 1, Len(s) - 1))
         IN IF \E i \in 1..Len(front) : front[i] = s[Len(s)]
            THEN front ELSE Append(front, s[Len(s)])

Labelled(w) == [i \in 1..Len(SelectSeq(ui, LAMBDA m : m.w = w)) |->
                  SelectSeq(ui, LAMBDA m : m.w = w)[i].ticker]

AllChannels ==
    \A i \in 1..Len(ticker_data.vals) :
        LET df == ticker_data.vals[i]
        IN /\ {"SMA_20", "SMA_50", "RSI"} \subseteq df.cols
           /\ Len(df.SMA_20) = df.n
           /\ Len(df.SMA_50) = df.n
           /\ Len(df.RSI) = df.n
           /\ df.n > 0

OneSnapshotEach ==
    /\ Labelled("trend") = Labelled("momentum")
    /\ Labelled("trend") = ticker_data.keys
    /\ Dedup(ticker_data.keys) = ticker_data.keys

\* The tickers of ticker_data in the order of their first appearance in the input.
FirstAppearanceOrder ==
    SelectSeq(Dedup(NonBlankUpTo(tickers, Len(tickers))),
              LAMBDA t : t \in KeySet(ticker_data))

\* The tickers in the order of their first fetch that returned a non-empty series.
FirstDataOrder ==
    Dedup([i \in 1..Len(SelectSeq(calls, LAMBDA c : HasData(c.resp))) |->
             SelectSeq(calls, LAMBDA c : HasData(c.resp))[i].ticker])

\* C10 as stated: after a batch every ticker of ticker_data has the three
\* channels and one snapshot, and the snapshots come in the order the tickers
\* first appear in the input.
C10_SnapshotsInInputOrder ==
    pc = "done" =>
        /\ AllChannels
        /\ OneSnapshotEach
        /\ Labelled("trend") = FirstAppearanceOrder

\* C10 amended: after a batch every ticker of ticker_data has the three
\* channels and one snapshot, and the snapshots come in the order of each
\* ticker's first fetch that returned a non-empty series.
C10_SnapshotsInStoreOrder ==
    pc = "done" =>
        /\ AllChannels
        /\ OneSnapshotEach
        /\ Labelled("trend") = FirstDataOrder

\* A finished batch that fetched data for the same ticker twice, with another
\* ticker in between.
C10_Witness ==
    /\ pc = "done"
    /\ Len(ticker_data.keys) = 2
    /\ \E i, j \in 1..Len(calls) :
         /\ i + 1 < j
         /\ calls[i].ticker = calls[j].ticker
         /\ HasData(calls[i].resp)
         /\ HasData(calls[j].resp)
         /\ HasData(calls[i + 1].resp)

====
